---- MODULE Spec2Model ----
(***************************************************************************)
(* Ordered-dithering scripts of miw2-deploy:                               *)
(*   compress-backgrounds.py      ("v1": crop + Floyd-Steinberg)           *)
(*   compress-backgrounds-v2.py   ("v2": crop + one ordered pattern)       *)
(*   compress-backgrounds-v3.py   ("v3": crop + several ordered patterns)  *)
(*   create-texture-assets.py     ("assets": 8x8 Bayer swatches)           *)
(*   create-classic-mac-textures.py ("mac": extra 8x8 Bayer swatches)      *)
(*                                                                         *)
(* Numbers.  Every threshold the scripts build is a dyadic rational or a   *)
(* two-digit decimal, and every sample is p/255 with p in 0..255; they are *)
(* kept here as exact fractions <<numerator, denominator>> and compared by *)
(* cross-multiplication.  No sample p/255 lies within 1/16320 of a         *)
(* threshold without being equal to it, so the float32/float64 comparison  *)
(* of the scripts and the exact comparison agree.                          *)
(*                                                                         *)
(* Images are grayscale: a sequence of rows, each a sequence of 0..255.    *)
(* Matrices are sequences of rows too; index 1 here is index 0 in Python.  *)
(***************************************************************************)
EXTENDS Integers, Sequences, FiniteSets, TLC

\* ------------------------------------------------------------ fractions

Rat(n, d) == <<n, d>>

RatGT(a, b) == a[1] * b[2] > b[1] * a[2]

RatEQ(a, b) == a[1] * b[2] = b[1] * a[2]

RatAdd(a, b) == <<a[1] * b[2] + b[1] * a[2], a[2] * b[2]>>

RatMulInt(a, k) == <<a[1] * k, a[2]>>

RatDivInt(a, k) == <<a[1], a[2] * k>>

\* ------------------------------------------------------------- matrices

Min(a, b) == IF a < b THEN a ELSE b

Rows(m) == Len(m)

Cols(m) == IF Len(m) = 0 THEN 0 ELSE Len(m[1])

\* numpy: integer array -> float array
AsFloat(m) == [i \in 1..Len(m) |-> [j \in 1..Len(m[i]) |-> Rat(m[i][j], 1)]]

\* numpy: m / k
MatDiv(m, k) == [i \in 1..Len(m) |-> [j \in 1..Len(m[i]) |-> RatDivInt(m[i][j], k)]]

\* numpy: k * m
MatMul(m, k) == [i \in 1..Len(m) |-> [j \in 1..Len(m[i]) |-> RatMulInt(m[i][j], k)]]

\* numpy: m + q, q a scalar fraction
MatAdd(m, q) == [i \in 1..Len(m) |-> [j \in 1..Len(m[i]) |-> RatAdd(m[i][j], q)]]

\* numpy: np.zeros((h, w))
Zeros(h, w) == [i \in 1..h |-> [j \in 1..w |-> Rat(0, 1)]]

\* mutant: np.block([[c, d], [a, b]])
Block_RowsSwapped(a, b, c, d) ==
  [i \in 1..Len(c) |-> c[i] \o d[i]] \o [i \in 1..Len(a) |-> a[i] \o b[i]]

\* numpy: np.block([[a, b], [c, d]])
Block(a, b, c, d) ==
  [i \in 1..Len(a) |-> a[i] \o b[i]] \o [i \in 1..Len(c) |-> c[i] \o d[i]]

\* mutant: the strided assignment with its two offsets exchanged
SetStrided_Transposed(m, r0, c0, src) ==
  [i \in 1..Len(m) |-> [j \in 1..Len(m[i]) |->
     IF (i - 1) % 2 = c0 /\ (j - 1) % 2 = r0
     THEN src[((i - 1 - c0) \div 2) + 1][((j - 1 - r0) \div 2) + 1]
     ELSE m[i][j]]]

\* numpy: m[r0::2, c0::2] = src   (r0, c0 are Python offsets 0 or 1)
SetStrided(m, r0, c0, src) ==
  [i \in 1..Len(m) |-> [j \in 1..Len(m[i]) |->
     IF (i - 1) % 2 = r0 /\ (j - 1) % 2 = c0
     THEN src[((i - 1 - r0) \div 2) + 1][((j - 1 - c0) \div 2) + 1]
     ELSE m[i][j]]]

\* numpy: m[r0::2, c0::2] = q, q a scalar
SetStridedScalar(m, r0, c0, q) ==
  [i \in 1..Len(m) |-> [j \in 1..Len(m[i]) |->
     IF i - 1 >= r0 /\ j - 1 >= c0 /\ (i - 1 - r0) % 2 = 0 /\ (j - 1 - c0) % 2 = 0
     THEN q ELSE m[i][j]]]

\* numpy: m[r0:r0+n, c0:c0+n] = src   (r0, c0 are Python offsets)
SetBlock(m, r0, c0, src) ==
  [i \in 1..Len(m) |-> [j \in 1..Len(m[i]) |->
     IF i - 1 >= r0 /\ i - 1 < r0 + Len(src) /\ j - 1 >= c0 /\ j - 1 < c0 + Cols(src)
     THEN src[i - r0][j - c0]
     ELSE m[i][j]]]

RECURSIVE Repeat(_, _)
Repeat(s, n) == IF n <= 0 THEN <<>> ELSE s \o Repeat(s, n - 1)

\* numpy: np.tile(m, (reps_h, reps_w))
np_tile(m, reps_h, reps_w) ==
  Repeat([i \in 1..Len(m) |-> Repeat(m[i], reps_w)], reps_h)

\* numpy: m[:height, :width]
Slice(m, height, width) ==
  [i \in 1..Min(height, Len(m)) |-> SubSeq(m[i], 1, Min(width, Len(m[i])))]

\* ------------------------------------------------------- Bayer builders

\* compress-backgrounds-v2.py: create_bayer_matrix
RECURSIVE create_bayer_matrix_v2(_)
create_bayer_matrix_v2(size) ==
  IF size = 2 THEN
    [raised |-> "none",
     value  |-> MatDiv(AsFloat(<< <<0, 2>>,
                                  <<3, 1>> >>), 4)]
  ELSE IF size = 4 THEN
    [raised |-> "none",
     value  |-> MatDiv(AsFloat(<< <<0,  8,  2,  10>>,
                                  <<12, 4,  14, 6>>,
                                  <<3,  11, 1,  9>>,
                                  <<15, 7,  13, 5>> >>), 16)]
  ELSE IF size = 8 THEN
    LET base == create_bayer_matrix_v2(4).value
    IN  [raised |-> "none",
         value  |-> MatDiv(Block(MatMul(base, 4),
                                 MatAdd(MatMul(base, 4), Rat(2, 1)),
                                 MatAdd(MatMul(base, 4), Rat(3, 1)),
                                 MatAdd(MatMul(base, 4), Rat(1, 1))), 4)]
  ELSE [raised |-> "ValueError", value |-> <<>>]

\* mutant: the quadrant offset taken as (i + j) / 4
quadrant_offset_v3_Sum(i, j) == Rat(i + j, 4)

\* compress-backgrounds-v3.py, line 34: (i*2 + j) / 4.0
quadrant_offset_v3(i, j) == Rat(i * 2 + j, 4)

\* compress-backgrounds-v3.py: create_bayer_matrix
RECURSIVE create_bayer_matrix_v3(_)
create_bayer_matrix_v3(size) ==
  IF size = 2 THEN
    [raised |-> "none",
     value  |-> MatDiv(AsFloat(<< <<0, 2>>,
                                  <<3, 1>> >>), 4)]
  ELSE IF size = 4 THEN
    LET bayer2 == create_bayer_matrix_v3(2).value
        q      == MatDiv(bayer2, 4)
        b0     == Zeros(4, 4)
        b1     == SetStrided(b0, 0, 0, q)
        b2     == SetStrided(b1, 0, 1, MatAdd(q, Rat(1, 2)))
        b3     == SetStrided(b2, 1, 0, MatAdd(q, Rat(3, 4)))
        b4     == SetStrided(b3, 1, 1, MatAdd(q, Rat(1, 4)))
    IN  [raised |-> "none", value |-> b4]
  ELSE IF size = 8 THEN
    LET bayer4 == create_bayer_matrix_v3(4).value
        q      == MatDiv(bayer4, 4)
        b0     == Zeros(8, 8)
        b1     == SetBlock(b0, 0, 0, MatAdd(q, quadrant_offset_v3(0, 0)))
        b2     == SetBlock(b1, 0, 4, MatAdd(q, quadrant_offset_v3(0, 1)))
        b3     == SetBlock(b2, 4, 0, MatAdd(q, quadrant_offset_v3(1, 0)))
        b4     == SetBlock(b3, 4, 4, MatAdd(q, quadrant_offset_v3(1, 1)))
    IN  [raised |-> "none", value |-> b4]
  ELSE [raised |-> "ValueError", value |-> <<>>]

\* integer arrays of the texture scripts
IntMul(m, k) == [i \in 1..Len(m) |-> [j \in 1..Len(m[i]) |-> k * m[i][j]]]

IntAdd(m, c) == [i \in 1..Len(m) |-> [j \in 1..Len(m[i]) |-> m[i][j] + c]]

\* create-texture-assets.py and create-classic-mac-textures.py:
\* create_bayer_matrix (the same text in both).  A size below 2 never reaches
\* the base case: size // 2 stays 0 (or -1) and Python ends the descent with
\* RecursionError.
RECURSIVE create_bayer_matrix_tex(_)
create_bayer_matrix_tex(size) ==
  IF size = 2 THEN
    [raised |-> "none", value |-> << <<0, 2>>, <<3, 1>> >>]
  ELSE IF size < 2 THEN
    [raised |-> "RecursionError", value |-> <<>>]
  ELSE
    LET smaller == create_bayer_matrix_tex(size \div 2)
    IN  IF smaller.raised # "none" THEN smaller
        ELSE [raised |-> "none",
              value  |-> Block(IntMul(smaller.value, 4),
                               IntAdd(IntMul(smaller.value, 4), 2),
                               IntAdd(IntMul(smaller.value, 4), 3),
                               IntAdd(IntMul(smaller.value, 4), 1))]

\* ------------------------------------------------------------ dithering

\* np.array(gray, dtype=float) / 255.0
img_array_of(image) ==
  [i \in 1..Len(image) |-> [j \in 1..Len(image[i]) |-> Rat(image[i][j], 255)]]

SameShape(a, b) == Rows(a) = Rows(b) /\ Cols(a) = Cols(b)

\* mutant: the comparison taken as >=
Greater_OrEqual(a, t) ==
  [i \in 1..Len(a) |-> [j \in 1..Len(a[i]) |->
     IF RatGT(a[i][j], t[i][j]) \/ RatEQ(a[i][j], t[i][j]) THEN 255 ELSE 0]]

\* (img_array > buffer).astype(np.uint8) * 255
Greater(a, t) ==
  [i \in 1..Len(a) |-> [j \in 1..Len(a[i]) |->
     IF RatGT(a[i][j], t[i][j]) THEN 255 ELSE 0]]

\* (img_array > 0.5).astype(np.uint8) * 255
GreaterScalar(a, q) ==
  [i \in 1..Len(a) |-> [j \in 1..Len(a[i]) |->
     IF RatGT(a[i][j], q) THEN 255 ELSE 0]]

\* Image.fromarray(result, mode='L').convert('1'): Pillow's L -> 1 conversion
\* maps a sample to white when it is above 128; its error diffusion carries
\* no error on an image whose samples are all 0 or 255.
convert_1(m) ==
  [i \in 1..Len(m) |-> [j \in 1..Len(m[i]) |-> IF m[i][j] > 128 THEN 255 ELSE 0]]

\* int(pattern_type.replace("bayer", ""))
BayerSize(pattern_type) ==
  CASE pattern_type = "bayer2" -> 2
    [] pattern_type = "bayer4" -> 4
    [] pattern_type = "bayer8" -> 8

\* compress-backgrounds-v2.py, lines 71-76: the tiled, cropped Bayer buffer
tiled_matrix_v2(bayer_matrix, matrix_size, height, width) ==
  LET tile_height == (height + matrix_size - 1) \div matrix_size
      tile_width  == (width + matrix_size - 1) \div matrix_size
  IN  Slice(np_tile(bayer_matrix, tile_height, tile_width), height, width)

\* mutant: one tile too few (height // matrix_h tiles)
tiled_matrix_v3_NoExtraTile(threshold_m, height, width) ==
  LET matrix_h == Rows(threshold_m)
      matrix_w == Cols(threshold_m)
  IN  Slice(np_tile(threshold_m, height \div matrix_h, width \div matrix_w),
            height, width)

\* compress-backgrounds-v3.py, lines 72-75: the tiled, cropped buffer
tiled_matrix_v3(threshold_m, height, width) ==
  LET matrix_h == Rows(threshold_m)
      matrix_w == Cols(threshold_m)
  IN  Slice(np_tile(threshold_m,
                    (height \div matrix_h) + 1, (width \div matrix_w) + 1),
            height, width)

\* one comparison of the sample array with a threshold buffer; numpy raises
\* ValueError when the shapes do not agree
Thresholded(img_array, matrix, buffer) ==
  IF SameShape(img_array, buffer)
  THEN [raised |-> "none", matrix |-> matrix, buffer |-> buffer,
        external |-> FALSE, size |-> <<Rows(img_array), Cols(img_array)>>,
        image |-> convert_1(Greater(img_array, buffer))]
  ELSE [raised |-> "ValueError", matrix |-> matrix, buffer |-> buffer,
        external |-> FALSE, size |-> <<0, 0>>, image |-> <<>>]

\* compress-backgrounds-v2.py: apply_ordered_dithering
apply_ordered_dithering(image, pattern_type) ==
  LET img_array == img_array_of(image)
      height    == Rows(img_array)
      width     == Cols(img_array)
  IN  IF pattern_type = "threshold" THEN
        [raised |-> "none", matrix |-> <<>>, buffer |-> <<>>, external |-> FALSE,
         size |-> <<height, width>>,
         image |-> convert_1(GreaterScalar(img_array, Rat(1, 2)))]
      ELSE IF pattern_type = "checkerboard" THEN
        LET c0      == Zeros(height, width)
            c1      == SetStridedScalar(c0, 0, 0, Rat(1, 2))
            checker == SetStridedScalar(c1, 1, 1, Rat(1, 2))
        IN  Thresholded(img_array, <<>>, checker)
      ELSE IF pattern_type \in {"bayer2", "bayer4", "bayer8"} THEN
        LET matrix_size  == BayerSize(pattern_type)
            bayer_matrix == create_bayer_matrix_v2(matrix_size).value
        IN  Thresholded(img_array, bayer_matrix,
                        tiled_matrix_v2(bayer_matrix, matrix_size, height, width))
      ELSE
        [raised |-> "ValueError", matrix |-> <<>>, buffer |-> <<>>,
         external |-> FALSE, size |-> <<0, 0>>, image |-> <<>>]

\* mutant: an error in place of the error-diffusion conversion
FloydSteinberg_Raises(image) ==
  [raised |-> "ValueError", matrix |-> <<>>, buffer |-> <<>>,
   external |-> FALSE, size |-> <<0, 0>>, image |-> <<>>]

\* gray_image.convert('1', dither=Image.Dither.FLOYDSTEINBERG): Pillow's error
\* diffusion, an external primitive.  Only the fact that it returns a 1-bit
\* image of the same size is kept; its pixels are not.
FloydSteinberg(image) ==
  [raised |-> "none", matrix |-> <<>>, buffer |-> <<>>, external |-> TRUE,
   size |-> <<Rows(image), Cols(image)>>, image |-> <<>>]

\* compress-backgrounds-v3.py: apply_ordered_dither
apply_ordered_dither(image, pattern_name) ==
  LET img_array == img_array_of(image)
      height    == Rows(img_array)
      width     == Cols(img_array)
  IN  IF pattern_name \in {"bayer2", "bayer4", "bayer8", "simple", "diagonal"} THEN
        LET threshold_m ==
              IF pattern_name = "bayer2" THEN create_bayer_matrix_v3(2).value
              ELSE IF pattern_name = "bayer4" THEN create_bayer_matrix_v3(4).value
              ELSE IF pattern_name = "bayer8" THEN create_bayer_matrix_v3(8).value
              ELSE IF pattern_name = "simple" THEN
                << <<Rat(25, 100), Rat(75, 100)>>,
                   <<Rat(75, 100), Rat(25, 100)>> >>
              ELSE
                << <<Rat(0, 100),  Rat(33, 100), Rat(66, 100)>>,
                   <<Rat(66, 100), Rat(0, 100),  Rat(33, 100)>>,
                   <<Rat(33, 100), Rat(66, 100), Rat(0, 100)>> >>
        IN  Thresholded(img_array, threshold_m,
                        tiled_matrix_v3(threshold_m, height, width))
      ELSE FloydSteinberg(image)

\* compress-backgrounds.py: convert_to_1bit
convert_to_1bit(image) == FloydSteinberg(image)

\* ------------------------------------------------------------- cropping

\* mutant: a pixel equal to the tolerance counts as non-black
point_mask_OrEqual(gray, tolerance) ==
  [i \in 1..Len(gray) |-> [j \in 1..Len(gray[i]) |->
     IF gray[i][j] >= tolerance THEN 255 ELSE 0]]

\* gray.point(lambda p: p > tolerance and 255)
point_mask(gray, tolerance) ==
  [i \in 1..Len(gray) |-> [j \in 1..Len(gray[i]) |->
     IF gray[i][j] > tolerance THEN 255 ELSE 0]]

SetMin(S) == CHOOSE a \in S : \A b \in S : a <= b

SetMax(S) == CHOOSE a \in S : \A b \in S : a >= b

\* mutant: right and lower taken inclusive
getbbox_Inclusive(mask) ==
  LET ys == {i - 1 : i \in {r \in 1..Len(mask) : \E j \in 1..Len(mask[r]) : mask[r][j] # 0}}
      xs == {j - 1 : j \in {c \in 1..Cols(mask) : \E i \in 1..Len(mask) : mask[i][c] # 0}}
  IN  IF ys = {} THEN <<>>
      ELSE <<SetMin(xs), SetMin(ys), SetMax(xs), SetMax(ys)>>

\* Pillow's Image.getbbox: (left, upper, right, lower) of the non-zero region,
\* right and lower exclusive; None (the empty tuple here) when there is none.
getbbox(mask) ==
  LET ys == {i - 1 : i \in {r \in 1..Len(mask) : \E j \in 1..Len(mask[r]) : mask[r][j] # 0}}
      xs == {j - 1 : j \in {c \in 1..Cols(mask) : \E i \in 1..Len(mask) : mask[i][c] # 0}}
  IN  IF ys = {} THEN <<>>
      ELSE <<SetMin(xs), SetMin(ys), SetMax(xs) + 1, SetMax(ys) + 1>>

\* Pillow's Image.crop(box) for a box inside the image
crop(image, box) ==
  [y \in 1..(box[4] - box[2]) |-> [x \in 1..(box[3] - box[1]) |->
     image[y + box[2]][x + box[1]]]]

\* mutant: no fallback to the original image when the box is None
crop_black_background_NoFallback(image, tolerance) ==
  LET bbox_ == getbbox(point_mask(image, tolerance))
  IN  IF bbox_ # <<>>
      THEN [bbox |-> bbox_, image |-> crop(image, bbox_)]
      ELSE [bbox |-> bbox_, image |-> <<>>]

\* crop_black_background (the three compress scripts; tolerance is the
\* parameter of v2 and the literal 10 of v1 and v3)
crop_black_background(image, tolerance) ==
  LET bbox_ == getbbox(point_mask(image, tolerance))
  IN  IF bbox_ # <<>>
      THEN [bbox |-> bbox_, image |-> crop(image, bbox_)]
      ELSE [bbox |-> bbox_, image |-> image]

\* ------------------------------------------------------ 8x8 swatches

White == <<255, 255, 255>>

Black == <<0, 0, 0>>

DensityDen == 40

\* density * 64 rounded up instead of truncated
int_density_64_Ceil(density_num) ==
  (density_num * 64 + DensityDen - 1) \div DensityDen

\* int(density * 64), density = density_num / DensityDen
int_density_64(density_num) == (density_num * 64) \div DensityDen

\* create-texture-assets.py: create_bayer_dithered_texture, and the loop body
\* of create_bayer_variations in create-classic-mac-textures.py (the same
\* comparison, never inverted).  The 64 pixels are in row-major order.
create_bayer_dithered_texture(density_num, inv) ==
  LET bayer_m   == create_bayer_matrix_tex(8).value
      threshold == int_density_64(density_num)
  IN  [bayer_matrix |-> bayer_m,
       threshold    |-> threshold,
       pixels       |->
         [k \in 1..64 |->
            LET y == (k - 1) \div 8
                x == (k - 1) % 8
                bayer_value == bayer_m[y + 1][x + 1]
            IN  IF inv
                THEN (IF bayer_value >= threshold THEN Black ELSE White)
                ELSE (IF bayer_value >= threshold THEN White ELSE Black)]]

\* Python's integer operators on the non-negative integers of the table
RECURSIVE BitAnd(_, _)
BitAnd(a, b) ==
  IF a = 0 \/ b = 0 THEN 0
  ELSE (IF a % 2 = 1 /\ b % 2 = 1 THEN 1 ELSE 0)
         + 2 * BitAnd(a \div 2, b \div 2)

RECURSIVE BitOr(_, _)
BitOr(a, b) ==
  IF a = 0 THEN b
  ELSE IF b = 0 THEN a
  ELSE (IF a % 2 = 1 \/ b % 2 = 1 THEN 1 ELSE 0)
         + 2 * BitOr(a \div 2, b \div 2)

RECURSIVE BitXor(_, _)
BitXor(a, b) ==
  IF a = 0 THEN b
  ELSE IF b = 0 THEN a
  ELSE (IF (a % 2) # (b % 2) THEN 1 ELSE 0)
         + 2 * BitXor(a \div 2, b \div 2)

Shr(a, n) == a \div (2 ^ n)

Shl(a, n) == a * (2 ^ n)

\* q without the exclusive or
q_of_NoXor(p) == p

\* q = p ^ (p >> 3)
q_of(p) == BitXor(p, Shr(p, 3))

\* the integer interleaved from the low three bits of p and of q
interleave(p, q) ==
  BitOr(BitOr(BitOr(Shr(BitAnd(p, 4), 2), Shr(BitAnd(q, 4), 1)),
              BitOr(Shl(BitAnd(p, 2), 1), Shl(BitAnd(q, 2), 2))),
        BitOr(Shl(BitAnd(p, 1), 4), Shl(BitAnd(q, 1), 5)))

\* create-classic-mac-textures.py: the table of 64 thresholds; table[p] of
\* the code is create_classic_mac_threshold_table[p + 1]
create_classic_mac_threshold_table ==
  [p1 \in 1..64 |-> Rat(interleave(p1 - 1, q_of(p1 - 1)), 64)]

\* the table index taken with x and y exchanged
table_index_Transposed(x, y) == BitAnd(y, 7) + Shl(BitAnd(x, 7), 3)

\* (x & 7) + ((y & 7) << 3)
table_index(x, y) == BitAnd(x, 7) + Shl(BitAnd(y, 7), 3)

\* create-classic-mac-textures.py: create_mac_dithered_pattern, lightness =
\* lightness_num / DensityDen.  The 64 pixels are in the order of the two
\* loops (y outside, x inside).
create_mac_dithered_pattern(lightness_num, inv) ==
  LET table == create_classic_mac_threshold_table
  IN  [threshold_table |-> table,
       pixels          |->
         [k \in 1..64 |->
            LET y == (k - 1) \div 8
                x == (k - 1) % 8
                map_value == table[table_index(x, y) + 1]
                px_white  == RatGT(Rat(lightness_num, DensityDen), map_value)
            IN  IF (IF inv THEN ~px_white ELSE px_white)
                THEN White ELSE Black]]

\* ------------------------------------------------------------- inputs

MaxDim == 9

MaxCanvas == 2

Tolerance == 10

\* gray levels of the uniform test images: black, the crop tolerance and the
\* level above it, the two 8-bit levels next to 0.5, and white
Grays == {0, Tolerance, Tolerance + 1, 127, 128, 255}

Uniform(h, w, g) == [i \in 1..h |-> [j \in 1..w |-> g]]

UniformImages == {Uniform(h, w, g) : h \in 1..MaxDim, w \in 1..MaxDim, g \in Grays}

\* the 16x16 mid-gray scenario
MidGrays == {127, 128}

ScenarioImages == {Uniform(16, 16, g) : g \in MidGrays}

\* an 8x8 canvas with one or two bright pixels on a dark ground
SpotCoords == {0, 3, 7}

TwoSpots(x1, y1, x2, y2, ground, bright) ==
  [i \in 1..8 |-> [j \in 1..8 |->
     IF (i - 1 = y1 /\ j - 1 = x1) \/ (i - 1 = y2 /\ j - 1 = x2)
     THEN bright ELSE ground]]

SpotImages ==
  {TwoSpots(x1, y1, x2, y2, ground, bright) :
     x1 \in SpotCoords, y1 \in SpotCoords, x2 \in SpotCoords, y2 \in SpotCoords,
     ground \in {0, Tolerance}, bright \in {Tolerance + 1, 255}}

\* every image of at most MaxCanvas x MaxCanvas pixels at and just above the
\* tolerance
RECURSIVE SeqsOf(_, _)
SeqsOf(S, n) ==
  IF n = 0 THEN {<<>>} ELSE {<<a>> \o t : a \in S, t \in SeqsOf(S, n - 1)}

SmallImages ==
  UNION {SeqsOf(SeqsOf({Tolerance, Tolerance + 1}, w), h) :
           h \in 1..MaxCanvas, w \in 1..MaxCanvas}

Images == UniformImages \cup ScenarioImages \cup SpotImages \cup SmallImages

\* --pattern choices of v2, --patterns choices of v3; v1 has no pattern and
\* always converts with Floyd-Steinberg
PatternChoices(s) ==
  CASE s = "v1" -> {"floyd"}
    [] s = "v2" -> {"bayer2", "bayer4", "bayer8", "threshold", "checkerboard"}
    [] s = "v3" -> {"bayer2", "bayer4", "bayer8", "simple", "diagonal", "floyd"}

CompressScripts == {"v1", "v2", "v3"}

TextureScripts == {"assets", "mac"}

\* --------------------------------------------------------------- state

VARIABLES
  script,            \* which script runs
  pc,                \* position in process_png_file / in the swatch function
  pattern,           \* dither_pattern / pattern_name
  img,               \* the opened source image
  bbox,              \* getbbox() result, <<>> for None
  cropped,           \* crop_black_background's result
  threshold_matrix,  \* the pattern's matrix (<<>> when the pattern has none)
  tiled_matrix,      \* the threshold buffer compared with the samples
  dithered,          \* [external, size, image]: the 1-bit image
  saved,             \* what dithered.save wrote (<<>>: nothing)
  result,            \* process_png_file's return value: "none", "True", "False"
  raised,            \* the exception caught by process_png_file, or "none"
  density,           \* swatch: numerator of density (over DensityDen)
  invert,            \* swatch: invert flag
  bayer_matrix,      \* swatch: create_bayer_matrix(8)
  pixels,            \* swatch: the 64 pixels handed to putdata
  lightness,         \* mac pattern: numerator of lightness (over DensityDen)
  threshold_table,   \* mac pattern: create_classic_mac_threshold_table()
  source_exists,     \* main: source_dir.exists()
  found,             \* main: what source_dir.rglob('*.png') lists, by file kind
  test,              \* main: args.test
  preview,           \* main: args.preview (v2 only)
  patterns,          \* main: args.patterns (v3), <<args.pattern>> (v2)
  png_files,         \* main: png_files
  pattern_index,     \* main: position of v3's pattern loop (1-based)
  file_index,        \* main: position of the file loop (1-based)
  processed,         \* main: processed
  failed,            \* main: failed
  target_dirs,       \* main: the target directories created so far
  attempts,          \* history: the process_png_file calls made, in order
  exit_code,         \* main: "none", "0", "1", or "Traceback" (uncaught exception)
  bayer_size,        \* direct call: the size given to create_bayer_matrix
  built              \* direct call: [raised, value] of create_bayer_matrix

fileVars == <<pattern, img, bbox, cropped, threshold_matrix, tiled_matrix,
              dithered, saved, result, raised>>

texVars == <<density, invert, bayer_matrix, pixels, lightness, threshold_table>>

mainVars == <<source_exists, found, test, preview, patterns, png_files,
              pattern_index, file_index, processed, failed, target_dirs,
              attempts, exit_code>>

callVars == <<bayer_size, built>>

vars == <<script, pc, fileVars, texVars, mainVars, callVars>>

NoImage == [external |-> FALSE, size |-> <<0, 0>>, image |-> <<>>]

FileIdle ==
  /\ pattern = "none" /\ img = <<>> /\ bbox = <<>> /\ cropped = <<>>
  /\ threshold_matrix = <<>> /\ tiled_matrix = <<>>
  /\ dithered = NoImage /\ saved = NoImage
  /\ result = "none" /\ raised = "none"

TexIdle ==
  /\ density = 0 /\ invert = FALSE /\ bayer_matrix = <<>> /\ pixels = <<>>
  /\ lightness = 0 /\ threshold_table = <<>>

MainIdle ==
  /\ source_exists = TRUE /\ found = <<>> /\ test = FALSE /\ preview = FALSE
  /\ patterns = <<>> /\ png_files = <<>>
  /\ pattern_index = 0 /\ file_index = 0 /\ processed = 0 /\ failed = 0
  /\ target_dirs = {} /\ attempts = <<>> /\ exit_code = "none"

NoMatrix == [raised |-> "none", value |-> <<>>]

CallIdle == bayer_size = 0 /\ built = NoMatrix

\* process_png_file(input_path, output_path, pattern) is about to open a file
InitFile ==
  /\ script \in CompressScripts
  /\ pc = "open"
  /\ pattern \in PatternChoices(script)
  /\ img \in Images
  /\ bbox = <<>> /\ cropped = <<>>
  /\ threshold_matrix = <<>> /\ tiled_matrix = <<>>
  /\ dithered = NoImage /\ saved = NoImage
  /\ result = "none" /\ raised = "none"
  /\ TexIdle
  /\ MainIdle
  /\ CallIdle

\* a swatch function is about to run: create_bayer_dithered_texture of the
\* assets script (either invert flag), create_bayer_variations of the mac one
InitTexture ==
  /\ script \in TextureScripts
  /\ pc = "swatch"
  /\ density \in 0..DensityDen
  /\ invert \in (IF script = "assets" THEN BOOLEAN ELSE {FALSE})
  /\ bayer_matrix = <<>> /\ pixels = <<>>
  /\ lightness = 0 /\ threshold_table = <<>>
  /\ FileIdle
  /\ MainIdle
  /\ CallIdle

\* create_mac_dithered_pattern(filename, lightness, invert) is about to run
InitMacPattern ==
  /\ script = "mac"
  /\ pc = "mac_pattern"
  /\ lightness \in 0..DensityDen
  /\ invert \in BOOLEAN
  /\ density = 0 /\ bayer_matrix = <<>> /\ pixels = <<>>
  /\ threshold_table = <<>>
  /\ FileIdle
  /\ MainIdle
  /\ CallIdle

Init == InitFile \/ InitTexture \/ InitMacPattern

\* --------------------------------------------------- process_png_file

\* Image.open(input_path) succeeded
OpenImage ==
  /\ pc = "open"
  /\ pc' = "crop"
  /\ UNCHANGED <<script, fileVars, texVars, callVars, mainVars>>

\* Image.open raised (unreadable or undecodable file): caught, return False
OpenFails ==
  /\ pc = "open"
  /\ pc' = "returned"
  /\ raised' = "OSError"
  /\ result' = "False"
  /\ UNCHANGED <<script, pattern, img, bbox, cropped, threshold_matrix,
                 tiled_matrix, dithered, saved, texVars, callVars, mainVars>>

\* cropped = crop_black_background(img)
Crop ==
  /\ pc = "crop"
  /\ LET c == crop_black_background(img, Tolerance)
     IN  /\ bbox' = c.bbox
         /\ cropped' = c.image
  /\ pc' = "dither"
  /\ UNCHANGED <<script, pattern, img, threshold_matrix, tiled_matrix,
                 dithered, saved, result, raised, texVars, callVars, mainVars>>

\* the script's conversion of the cropped image to 1 bit
Dithering(s, image, p) ==
  CASE s = "v1" -> convert_to_1bit(image)
    [] s = "v2" -> apply_ordered_dithering(image, p)
    [] s = "v3" -> apply_ordered_dither(image, p)

\* dithered = apply_ordered_dithering(cropped, pattern) and its counterparts;
\* an exception is caught by process_png_file, which returns False
Dither ==
  /\ pc = "dither"
  /\ LET d == Dithering(script, cropped, pattern)
     IN  /\ threshold_matrix' = d.matrix
         /\ tiled_matrix' = d.buffer
         /\ IF d.raised = "none"
            THEN /\ dithered' = [external |-> d.external, size |-> d.size,
                                 image |-> d.image]
                 /\ pc' = "save"
                 /\ UNCHANGED <<result, raised>>
            ELSE /\ dithered' = dithered
                 /\ pc' = "returned"
                 /\ raised' = d.raised
                 /\ result' = "False"
  /\ UNCHANGED <<script, pattern, img, bbox, cropped, saved, texVars, callVars, mainVars>>

\* mkdir, dithered.save, the two stat calls: all succeeded, return True
Save ==
  /\ pc = "save"
  /\ saved' = dithered
  /\ result' = "True"
  /\ pc' = "returned"
  /\ UNCHANGED <<script, pattern, img, bbox, cropped, threshold_matrix,
                 tiled_matrix, dithered, raised, texVars, callVars, mainVars>>

\* mkdir, save or stat raised: caught, return False
SaveFails ==
  /\ pc = "save"
  /\ raised' = "OSError"
  /\ result' = "False"
  /\ pc' = "returned"
  /\ UNCHANGED <<script, pattern, img, bbox, cropped, threshold_matrix,
                 tiled_matrix, dithered, saved, texVars, callVars, mainVars>>

\* ------------------------------------------------------------ swatches

CreateBayerTexture ==
  /\ pc = "swatch"
  /\ LET t == create_bayer_dithered_texture(density, invert)
     IN  /\ bayer_matrix' = t.bayer_matrix
         /\ pixels' = t.pixels
  /\ pc' = "created"
  /\ UNCHANGED <<script, density, invert, lightness, threshold_table,
                 fileVars, mainVars, callVars>>

CreateMacPattern ==
  /\ pc = "mac_pattern"
  /\ LET t == create_mac_dithered_pattern(lightness, invert)
     IN  /\ threshold_table' = t.threshold_table
         /\ pixels' = t.pixels
  /\ pc' = "mac_created"
  /\ UNCHANGED <<script, density, invert, lightness, bayer_matrix,
                 fileVars, mainVars, callVars>>

Next ==
  \/ OpenImage
  \/ OpenFails
  \/ Crop
  \/ Dither
  \/ Save
  \/ SaveFails
  \/ CreateBayerTexture
  \/ CreateMacPattern

Spec == Init /\ [][Next]_vars

\* ------------------------------------------------------------- main()

MaxFiles == 6

\* what rglob('*.png') can list: a readable PNG; a name Image.open cannot
\* open or decode (a damaged file, a directory called x.png); a name whose
\* stat() fails (a dangling symbolic link, a file removed after the listing)
FileKinds == {"ok", "corrupt", "dangling"}

FileLists == UNION {SeqsOf(FileKinds, n) : n \in 0..MaxFiles}

\* the values of --patterns tried for v3: the default, one with a pattern
\* outside the ordered set
PatternLists == {<<"bayer2", "bayer4">>, <<"floyd">>}

\* png_files[:5] in v1 and v2, png_files[:3] in v3
TestLimit(s) == IF s = "v3" THEN 3 ELSE 5

\* process_png_file's return value for a file whose stat() succeeded: every
\* exception of opening, converting and saving is caught and gives False
process_png_file_returns(kind) == kind = "ok"

InitMain ==
  /\ script \in CompressScripts
  /\ pc = "main"
  /\ source_exists \in BOOLEAN
  /\ found \in (IF source_exists THEN FileLists ELSE {<<>>})
  /\ test \in BOOLEAN
  /\ preview \in (IF script = "v2" THEN BOOLEAN ELSE {FALSE})
  /\ patterns \in (CASE script = "v1" -> {<<"floyd">>}
                     [] script = "v2" -> {<<"bayer4">>}
                     [] script = "v3" -> PatternLists)
  /\ png_files = <<>>
  /\ pattern_index = 0 /\ file_index = 0 /\ processed = 0 /\ failed = 0
  /\ target_dirs = {} /\ attempts = <<>> /\ exit_code = "none"
  /\ FileIdle
  /\ TexIdle
  /\ CallIdle

\* the preview branch placed after the source directory check
Preview_AfterSourceCheck ==
  /\ pc = "main" /\ script = "v2" /\ preview
  /\ exit_code' = IF source_exists THEN "0" ELSE "1"
  /\ pc' = "exit"
  /\ UNCHANGED <<script, fileVars, texVars, callVars, source_exists, found, test, preview,
                 patterns, png_files, pattern_index, file_index, processed,
                 failed, target_dirs, attempts>>

\* v2, lines 166-175: --preview prints the pattern list and returns 0
Preview ==
  /\ pc = "main" /\ script = "v2" /\ preview
  /\ exit_code' = "0"
  /\ pc' = "exit"
  /\ UNCHANGED <<script, fileVars, texVars, callVars, source_exists, found, test, preview,
                 patterns, png_files, pattern_index, file_index, processed,
                 failed, target_dirs, attempts>>

\* if not source_dir.exists(): return 1
SourceMissing ==
  /\ pc = "main" /\ ~(script = "v2" /\ preview)
  /\ ~source_exists
  /\ exit_code' = "1"
  /\ pc' = "exit"
  /\ UNCHANGED <<script, fileVars, texVars, callVars, source_exists, found, test, preview,
                 patterns, png_files, pattern_index, file_index, processed,
                 failed, target_dirs, attempts>>

\* the empty-listing return placed after the creation of the target directory
NoFiles_AfterMkdir ==
  /\ pc = "main" /\ ~(script = "v2" /\ preview)
  /\ source_exists
  /\ found = <<>>
  /\ png_files' = found
  /\ target_dirs' = target_dirs \cup {"target"}
  /\ exit_code' = "1"
  /\ pc' = "exit"
  /\ UNCHANGED <<script, fileVars, texVars, callVars, source_exists, found, test, preview,
                 patterns, pattern_index, file_index, processed, failed,
                 attempts>>

\* png_files = list(source_dir.rglob('*.png')); if not png_files: return 1
NoFiles ==
  /\ pc = "main" /\ ~(script = "v2" /\ preview)
  /\ source_exists
  /\ found = <<>>
  /\ png_files' = found
  /\ exit_code' = "1"
  /\ pc' = "exit"
  /\ UNCHANGED <<script, fileVars, texVars, callVars, source_exists, found, test, preview,
                 patterns, pattern_index, file_index, processed, failed,
                 target_dirs, attempts>>

\* the listing is not empty; if args.test: png_files = png_files[:limit]
ListFiles ==
  /\ pc = "main" /\ ~(script = "v2" /\ preview)
  /\ source_exists
  /\ found # <<>>
  /\ png_files' = IF test
                  THEN SubSeq(found, 1, Min(TestLimit(script), Len(found)))
                  ELSE found
  /\ pc' = IF script = "v3" THEN "patterns" ELSE "mkdir"
  /\ pattern_index' = 1
  /\ UNCHANGED <<script, fileVars, texVars, callVars, source_exists, found, test, preview,
                 patterns, file_index, processed, failed, target_dirs,
                 attempts, exit_code>>

\* v1, v2: target_dir.mkdir(...); processed = 0; failed = 0
MakeTargetDir ==
  /\ pc = "mkdir"
  /\ target_dirs' = target_dirs \cup {"target"}
  /\ processed' = 0
  /\ failed' = 0
  /\ file_index' = 1
  /\ pc' = "files"
  /\ UNCHANGED <<script, fileVars, texVars, callVars, source_exists, found, test, preview,
                 patterns, png_files, pattern_index, attempts, exit_code>>

\* v3: for pattern_name in args.patterns: pattern_target_dir.mkdir(...);
\* processed = 0; failed = 0
StartPattern ==
  /\ pc = "patterns"
  /\ pattern_index <= Len(patterns)
  /\ target_dirs' = target_dirs \cup {patterns[pattern_index]}
  /\ processed' = 0
  /\ failed' = 0
  /\ file_index' = 1
  /\ pc' = "files"
  /\ UNCHANGED <<script, fileVars, texVars, callVars, source_exists, found, test, preview,
                 patterns, png_files, pattern_index, attempts, exit_code>>

\* one pass of "for png_file in png_files" for a file whose stat() succeeds:
\* process_png_file is called and counted
ProcessFile ==
  /\ pc = "files"
  /\ file_index <= Len(png_files)
  /\ png_files[file_index] # "dangling"
  /\ LET ok == process_png_file_returns(png_files[file_index])
     IN  /\ attempts' = Append(attempts, [pattern |-> pattern_index,
                                          file |-> file_index, ok |-> ok])
         /\ processed' = IF ok THEN processed + 1 ELSE processed
         /\ failed' = IF ok THEN failed ELSE failed + 1
  /\ file_index' = file_index + 1
  /\ UNCHANGED <<script, pc, fileVars, texVars, callVars, source_exists, found, test,
                 preview, patterns, png_files, pattern_index, target_dirs,
                 exit_code>>

\* original_size = png_file.stat().st_size raises: the call is outside
\* process_png_file's try, nothing in main catches it, the run ends with a
\* traceback
StatRaises ==
  /\ pc = "files"
  /\ file_index <= Len(png_files)
  /\ png_files[file_index] = "dangling"
  /\ exit_code' = "Traceback"
  /\ pc' = "exit"
  /\ UNCHANGED <<script, fileVars, texVars, callVars, source_exists, found, test, preview,
                 patterns, png_files, pattern_index, file_index, processed,
                 failed, target_dirs, attempts>>

\* v1, v2: the loop is over: return 0 if failed == 0 else 1
ReturnByFailed ==
  /\ pc = "files" /\ script \in {"v1", "v2"}
  /\ file_index > Len(png_files)
  /\ exit_code' = IF failed = 0 THEN "0" ELSE "1"
  /\ pc' = "exit"
  /\ UNCHANGED <<script, fileVars, texVars, callVars, source_exists, found, test, preview,
                 patterns, png_files, pattern_index, file_index, processed,
                 failed, target_dirs, attempts>>

\* v3: the file loop of one pattern is over: on to the next pattern
NextPattern ==
  /\ pc = "files" /\ script = "v3"
  /\ file_index > Len(png_files)
  /\ pattern_index' = pattern_index + 1
  /\ pc' = "patterns"
  /\ UNCHANGED <<script, fileVars, texVars, callVars, source_exists, found, test, preview,
                 patterns, png_files, file_index, processed, failed,
                 target_dirs, attempts, exit_code>>

\* v3, line 216: the pattern loop is over: return 0
ReturnZero ==
  /\ pc = "patterns"
  /\ pattern_index > Len(patterns)
  /\ exit_code' = "0"
  /\ pc' = "exit"
  /\ UNCHANGED <<script, fileVars, texVars, callVars, source_exists, found, test, preview,
                 patterns, png_files, pattern_index, file_index, processed,
                 failed, target_dirs, attempts>>

NextMain ==
  \/ Preview
  \/ SourceMissing
  \/ NoFiles
  \/ ListFiles
  \/ MakeTargetDir
  \/ StartPattern
  \/ ProcessFile
  \/ StatRaises
  \/ ReturnByFailed
  \/ NextPattern
  \/ ReturnZero

SpecMain == InitMain /\ [][NextMain]_vars

\* ------------------------------------------- the functions called directly

MaxSize == 16

\* the sizes given to create_bayer_matrix
Sizes == 0..MaxSize

\* the scripts that define create_bayer_matrix
BuilderScripts == {"v2", "v3", "assets", "mac"}

\* the scripts whose dithering function takes a pattern identifier
DitherScripts == {"v2", "v3"}

\* the identifiers given to the dithering functions: every name some script
\* knows, a name none knows, the empty string
PatternNames ==
  UNION {PatternChoices(s) : s \in CompressScripts} \cup {"spiral", ""}

CallImages ==
  {Uniform(h, w, g) : h \in 1..MaxCanvas, w \in 1..MaxCanvas, g \in Grays}

\* create_bayer_matrix(size) is about to run
InitBuilderCall ==
  /\ script \in BuilderScripts
  /\ pc = "build"
  /\ bayer_size \in Sizes
  /\ built = NoMatrix
  /\ FileIdle
  /\ TexIdle
  /\ MainIdle

\* apply_ordered_dithering(image, pattern_type) of v2 or
\* apply_ordered_dither(image, pattern_name) of v3 is about to run
InitDitherCall ==
  /\ script \in DitherScripts
  /\ pc = "call"
  /\ pattern \in PatternNames
  /\ img \in CallImages
  /\ bbox = <<>> /\ cropped = <<>>
  /\ threshold_matrix = <<>> /\ tiled_matrix = <<>>
  /\ dithered = NoImage /\ saved = NoImage
  /\ result = "none" /\ raised = "none"
  /\ TexIdle
  /\ MainIdle
  /\ CallIdle

InitCall == InitBuilderCall \/ InitDitherCall

\* the script's create_bayer_matrix
create_bayer_matrix(s, size) ==
  CASE s = "v2" -> create_bayer_matrix_v2(size)
    [] s = "v3" -> create_bayer_matrix_v3(size)
    [] s \in TextureScripts -> create_bayer_matrix_tex(size)

\* create_bayer_matrix(size) returns or raises
CallBuilder ==
  /\ pc = "build"
  /\ built' = create_bayer_matrix(script, bayer_size)
  /\ pc' = "built"
  /\ UNCHANGED <<script, bayer_size, fileVars, texVars, mainVars>>

\* the dithering function returns or raises (nothing catches the exception
\* here)
CallDither ==
  /\ pc = "call"
  /\ LET d == Dithering(script, img, pattern)
     IN  /\ threshold_matrix' = d.matrix
         /\ tiled_matrix' = d.buffer
         /\ raised' = d.raised
         /\ dithered' = IF d.raised = "none"
                        THEN [external |-> d.external, size |-> d.size,
                              image |-> d.image]
                        ELSE dithered
  /\ pc' = "called"
  /\ UNCHANGED <<script, pattern, img, bbox, cropped, saved, result,
                 texVars, mainVars, callVars>>

NextCall ==
  \/ CallBuilder
  \/ CallDither

SpecCall == InitCall /\ [][NextCall]_vars

\* ============================================================== claims

\* the level N^2 * q of a normalised threshold q, and whether it is a whole
\* number
Level(q, N) == (q[1] * N * N) \div q[2]

Integral(q, N) == (q[1] * N * N) % q[2] = 0

IsSquare(m, N) == Len(m) = N /\ \A i \in 1..N : Len(m[i]) = N

\* m is N x N and N^2 * m holds each of 0..N^2-1 exactly once
IsLevelPermutation(m, N) ==
  /\ IsSquare(m, N)
  /\ \A i \in 1..N : \A j \in 1..N : Integral(m[i][j], N)
  /\ \A k \in 0..(N * N - 1) :
       Cardinality({c \in (1..N) \X (1..N) : Level(m[c[1]][c[2]], N) = k}) = 1

\* the integer matrix m is N x N and holds each of 0..N^2-1 exactly once
IsIntPermutation(m, N) ==
  /\ IsSquare(m, N)
  /\ \A k \in 0..(N * N - 1) :
       Cardinality({c \in (1..N) \X (1..N) : m[c[1]][c[2]] = k}) = 1

BayerPatterns == {"bayer2", "bayer4", "bayer8"}

\* apply_ordered_dithering / apply_ordered_dither ran with a matrix pattern
MatrixBuilt == pc \in {"save", "returned"} /\ threshold_matrix # <<>>

\* C1: in compress-backgrounds-v2.py, for N in {2,4,8}, N^2 times
\* create_bayer_matrix(N) holds each integer level 0..N^2-1 exactly once.
\* (Stated as the claim states it; the 8x8 matrix of v2 violates it.)
C1_BayerV2EachLevelOnce ==
  (script = "v2" /\ pattern \in BayerPatterns /\ MatrixBuilt)
    => IsLevelPermutation(threshold_matrix, BayerSize(pattern))

\* C2: in compress-backgrounds-v3.py, for N in {2,4,8}, N^2 times
\* create_bayer_matrix(N) holds each integer level 0..N^2-1 exactly once, and
\* the unnormalised create_bayer_matrix(8) of the two texture scripts holds
\* each integer 0..63 exactly once.
C2_BayerV3AndTextureEachLevelOnce ==
  /\ (script = "v3" /\ pattern \in BayerPatterns /\ MatrixBuilt)
       => IsLevelPermutation(threshold_matrix, BayerSize(pattern))
  /\ (script \in TextureScripts /\ pc = "created")
       => IsIntPermutation(bayer_matrix, 8)

\* C2 witness: v3 built its 8x8 matrix; its first cell holds level 0, its
\* second quadrant starts at level 16, and some cell holds level 63.
C2_Witness ==
  /\ script = "v3" /\ pattern = "bayer8" /\ MatrixBuilt
  /\ Level(threshold_matrix[1][1], 8) = 0
  /\ Level(threshold_matrix[1][5], 8) = 16
  /\ \E c \in (1..8) \X (1..8) : Level(threshold_matrix[c[1]][c[2]], 8) = 63

InUnitRange(q) == q[1] >= 0 /\ q[1] < q[2]

\* C3: every threshold matrix used for ordered dithering (the Bayer matrices
\* of v2 and v3, the v2 checkerboard buffer, the v3 simple and diagonal
\* matrices) has all values v with 0 <= v < 1, so a source pixel of intensity
\* 255 is output white at every position.
\* (Stated as the claim states it; the 8x8 matrix of v2 violates it.)
C3_ThresholdsBelowOne ==
  (pc = "save" /\ tiled_matrix # <<>>) =>
    /\ \A i \in 1..Len(threshold_matrix) : \A j \in 1..Len(threshold_matrix[i]) :
         InUnitRange(threshold_matrix[i][j])
    /\ \A i \in 1..Len(tiled_matrix) : \A j \in 1..Len(tiled_matrix[i]) :
         InUnitRange(tiled_matrix[i][j])
    /\ \A i \in 1..Len(cropped) : \A j \in 1..Len(cropped[i]) :
         cropped[i][j] = 255 => dithered.image[i][j] = 255

\* C4: for every threshold matrix M (mh x mw) and every image of width and
\* height >= 1, the tiled buffer of v2 (ceil(height/m) tiles) and of v3
\* (height//m + 1 tiles) has exactly height x width cells, its cell (y,x) is
\* M[y mod mh][x mod mw], an M-sized target gives M itself, and the two
\* tilers give the same buffer.
C4_TiledBufferIsPeriodic ==
  MatrixBuilt =>
    LET M      == threshold_matrix
        mh     == Rows(M)
        mw     == Cols(M)
        height == Rows(cropped)
        width  == Cols(cropped)
    IN  /\ height >= 1 /\ width >= 1
        /\ Len(tiled_matrix) = height
        /\ \A y \in 1..height :
             /\ Len(tiled_matrix[y]) = width
             /\ \A x \in 1..width :
                  tiled_matrix[y][x] = M[((y - 1) % mh) + 1][((x - 1) % mw) + 1]
        /\ tiled_matrix[1][1] = M[1][1]
        /\ (height = mh /\ width = mw) => tiled_matrix = M
        /\ mh = mw =>
             tiled_matrix_v2(M, mh, height, width) = tiled_matrix_v3(M, height, width)

\* C4 witness: a 4x4 matrix over a 5x5 image: the fifth row and column wrap to
\* the first, the buffer is cropped inside the second tile.
C4_Witness ==
  /\ MatrixBuilt /\ pattern = "bayer4"
  /\ Rows(cropped) = 5 /\ Cols(cropped) = 5
  /\ Len(tiled_matrix) = 5 /\ Len(tiled_matrix[5]) = 5
  /\ tiled_matrix[5][5] = threshold_matrix[1][1]
  /\ tiled_matrix[5][4] = threshold_matrix[1][4]

\* the threshold the pattern puts at pixel (y, x) (1-based): 0.5 everywhere
\* for "threshold"; 0.5 on the cells whose row and column have the same
\* parity and 0 elsewhere for "checkerboard"; the matrix cell at
\* (y mod mh, x mod mw) for the matrix patterns
ThresholdAt(y, x) ==
  IF pattern = "threshold" THEN Rat(1, 2)
  ELSE IF pattern = "checkerboard"
       THEN (IF (y - 1) % 2 = (x - 1) % 2 THEN Rat(1, 2) ELSE Rat(0, 1))
       ELSE threshold_matrix[((y - 1) % Rows(threshold_matrix)) + 1]
                            [((x - 1) % Cols(threshold_matrix)) + 1]

OrderedDone == pc = "save" /\ ~dithered.external

\* C5: for every pixel and every ordered pattern, the output pixel is white
\* iff intensity/255 is strictly greater than the threshold at that position;
\* a sample equal to its threshold is output black; every output pixel is
\* black or white.
C5_WhiteIffStrictlyGreater ==
  OrderedDone =>
    /\ dithered.size = <<Rows(cropped), Cols(cropped)>>
    /\ Len(dithered.image) = Rows(cropped)
    /\ \A y \in 1..Rows(cropped) :
         /\ Len(dithered.image[y]) = Cols(cropped)
         /\ \A x \in 1..Cols(cropped) :
              /\ dithered.image[y][x] \in {0, 255}
              /\ dithered.image[y][x] = 255
                   <=> RatGT(Rat(cropped[y][x], 255), ThresholdAt(y, x))
              /\ RatEQ(Rat(cropped[y][x], 255), ThresholdAt(y, x))
                   => dithered.image[y][x] = 0

\* C5 witness: intensity 0 on a threshold-0 cell comes out black, while a
\* brighter pixel of the same image on a cell of the same pattern is white.
C5_Witness ==
  /\ OrderedDone /\ pattern \in BayerPatterns
  /\ cropped[1][1] = 0
  /\ RatEQ(ThresholdAt(1, 1), Rat(0, 1))
  /\ dithered.image[1][1] = 0
  /\ \E y \in 1..Rows(cropped) : \E x \in 1..Cols(cropped) :
       dithered.image[y][x] = 255

\* the white pixels of the aligned 4x4 tile (ty, tx) of the output
TileWhites(ty, tx) ==
  Cardinality({c \in (1..4) \X (1..4) :
                 dithered.image[4 * ty + c[1]][4 * tx + c[2]] = 255})

MidGrayScenario ==
  /\ script \in {"v2", "v3"} /\ pattern = "bayer4" /\ pc = "save"
  /\ \E g \in MidGrays : img = Uniform(16, 16, g)

\* the part of the scenario that does not depend on the gray level: no
\* cropping, and the 16x16 buffer is four full matrix periods per axis
MidGrayUncroppedAndTiled ==
  /\ bbox = <<0, 0, 16, 16>>
  /\ cropped = img
  /\ Rows(threshold_matrix) = 4 /\ Cols(threshold_matrix) = 4
  /\ Rows(tiled_matrix) = 4 * 4 /\ Cols(tiled_matrix) = 4 * 4
  /\ tiled_matrix = np_tile(threshold_matrix, 4, 4)

\* C6 as stated: a 16x16 uniform mid-gray image with bayer4 is not cropped,
\* the matrix is tiled 4 times per axis, and every aligned 4x4 tile has
\* exactly 8 white and 8 black pixels.  (Violated by the 8-bit mid-gray 128.)
C6_MidGrayEightWhite ==
  MidGrayScenario =>
    /\ MidGrayUncroppedAndTiled
    /\ \A ty \in 0..3 : \A tx \in 0..3 : TileWhites(ty, tx) = 8

\* C6 amended: the same, with 8 white and 8 black pixels per tile for the
\* 8-bit level 127 below 0.5, and 9 white and 7 black for the level 128
\* above it.
C6_MidGrayAmended ==
  MidGrayScenario =>
    /\ MidGrayUncroppedAndTiled
    /\ \A ty \in 0..3 : \A tx \in 0..3 :
         TileWhites(ty, tx) = (IF img[1][1] = 127 THEN 8 ELSE 9)

\* C6 witness: the scenario ran on intensity 127 and the first tile has 8
\* white pixels.
C6_Witness ==
  /\ MidGrayScenario /\ img[1][1] = 127
  /\ bbox = <<0, 0, 16, 16>>
  /\ TileWhites(0, 0) = 8 /\ TileWhites(3, 3) = 8

Cropped == pc \in {"dither", "save", "returned"} /\ cropped # <<>>

Bright(p) == p > Tolerance

\* C7: when some pixel is brighter than the tolerance, crop_black_background
\* crops to the tight bounding box of those pixels: every pixel outside the
\* box is <= T, the first and last rows and columns of the box each hold a
\* pixel > T, and cropped (x,y) is the original (x+left, y+top).  A single
\* bright pixel at (3,3) of an 8x8 image gives the box (3,3,4,4).
C7_CropIsTightBoundingBox ==
  (Cropped /\ \E i \in 1..Rows(img) : \E j \in 1..Cols(img) : Bright(img[i][j])) =>
    /\ Len(bbox) = 4
    /\ LET left == bbox[1]  top == bbox[2]  right == bbox[3]  bottom == bbox[4]
       IN  /\ 0 <= left /\ left < right /\ right <= Cols(img)
           /\ 0 <= top /\ top < bottom /\ bottom <= Rows(img)
           /\ \A i \in 1..Rows(img) : \A j \in 1..Cols(img) :
                (i - 1 < top \/ i - 1 >= bottom \/ j - 1 < left \/ j - 1 >= right)
                  => ~Bright(img[i][j])
           /\ \E j \in (left + 1)..right : Bright(img[top + 1][j])
           /\ \E j \in (left + 1)..right : Bright(img[bottom][j])
           /\ \E i \in (top + 1)..bottom : Bright(img[i][left + 1])
           /\ \E i \in (top + 1)..bottom : Bright(img[i][right])
           /\ Rows(cropped) = bottom - top
           /\ \A y \in 1..(bottom - top) :
                /\ Len(cropped[y]) = right - left
                /\ \A x \in 1..(right - left) :
                     cropped[y][x] = img[y + top][x + left]
           /\ (\E g \in {0, Tolerance} : \E b \in {Tolerance + 1, 255} :
                 img = TwoSpots(3, 3, 3, 3, g, b)) => bbox = <<3, 3, 4, 4>>

\* C7 witness: the single bright pixel at (3,3) of an 8x8 image was cropped
\* to the 1x1 box (3,3,4,4).
C7_Witness ==
  /\ Cropped
  /\ img = TwoSpots(3, 3, 3, 3, Tolerance, Tolerance + 1)
  /\ bbox = <<3, 3, 4, 4>>
  /\ cropped = << <<Tolerance + 1>> >>

AllBlack == \A i \in 1..Rows(img) : \A j \in 1..Cols(img) : ~Bright(img[i][j])

\* C8: when every pixel is <= the tolerance, crop_black_background returns
\* the original image unchanged, process_png_file goes on to dither and save
\* it and returns True: the only failures are those of opening and saving.
C8_AllBlackPassesThrough ==
  (img # <<>> /\ AllBlack) =>
    /\ Cropped => (bbox = <<>> /\ cropped = img)
    /\ (pc = "returned" /\ result = "False") => raised = "OSError"
    /\ (pc = "returned" /\ raised = "none") =>
         /\ result = "True"
         /\ saved = dithered
         /\ saved.size = <<Rows(img), Cols(img)>>

\* C8 witness: a solid black 8x8 source was saved, uncropped, and reported
\* as a success.
C8_Witness ==
  /\ img = Uniform(8, 8, 0)
  /\ pc = "returned" /\ result = "True"
  /\ bbox = <<>> /\ cropped = img
  /\ saved.size = <<8, 8>>

\* main is over and had reached its file loop
LoopReached == pc = "exit" /\ png_files # <<>>

\* C9: in the batch loop of the three drivers a failure on one file never
\* stops the loop: every file of the (possibly truncated) list is attempted
\* exactly once per pattern, in list order, whatever happened to the earlier
\* files, and at the end of the loop processed + failed is the number of
\* files.
\* (Stated as the claim states it; a file whose stat() fails ends main in the
\* middle of the loop.)
C9_EveryFileAttemptedOnce ==
  /\ LoopReached =>
       LET n == Len(png_files)
       IN  /\ Len(attempts) = Len(patterns) * n
           /\ \A k \in 1..Len(attempts) :
                /\ attempts[k].pattern = ((k - 1) \div n) + 1
                /\ attempts[k].file = ((k - 1) % n) + 1
           /\ processed + failed = n
  /\ (pc = "files" /\ file_index > Len(png_files))
       => processed + failed = Len(png_files)

\* C10: main returns 0 only when every attempted file succeeded, and returns
\* 1 when the source directory is missing, when it holds no PNG file, or when
\* at least one file failed.  (Runs of v2 with --preview, which return before
\* any of this, and runs ended by an uncaught exception are left out.)
\* (Stated as the claim states it; v3 returns 0 whatever failed.)
C10_ExitCodeReflectsFailures ==
  (pc = "exit" /\ ~preview /\ exit_code # "Traceback") =>
    /\ exit_code = "0" => \A k \in 1..Len(attempts) : attempts[k].ok
    /\ ~source_exists => exit_code = "1"
    /\ (source_exists /\ found = <<>>) => exit_code = "1"
    /\ (\E k \in 1..Len(attempts) : ~attempts[k].ok) => exit_code = "1"

\* main was started without --preview on a missing or PNG-less source
NothingToProcess == ~preview /\ (~source_exists \/ found = <<>>)

C15_PreviewReturnsZero ==
  (script = "v2" /\ preview) =>
    /\ pc \in {"main", "exit"}
    /\ png_files = <<>> /\ attempts = <<>>
    /\ processed = 0 /\ failed = 0 /\ target_dirs = {}
    /\ pc = "exit" => exit_code = "0"

\* C15 witness: a --preview run on a missing source directory has returned 0.
C15_Witness ==
  /\ script = "v2" /\ preview /\ ~source_exists
  /\ pc = "exit" /\ exit_code = "0"
  /\ target_dirs = {} /\ attempts = <<>>

\* the number of white pixels of a 64-pixel swatch
WhiteCount(px) == Cardinality({k \in 1..64 : px[k] = White})

\* a swatch of create_bayer_dithered_texture / create_bayer_variations is done
BayerSwatchDone == script \in TextureScripts /\ pc = "created"

\* C18: in create_bayer_dithered_texture, for every density d in [0,1] the
\* non-inverted 8x8 swatch has exactly 64 - floor(64*d) white pixels (a cell
\* is white iff its integer Bayer level >= floor(64*d)), a higher density
\* never gives more white pixels, density 1.0 gives an all-black swatch, and
\* the inverted swatch is the exact per-pixel complement, with floor(64*d)
\* white pixels.  The uninverted swatches of create_bayer_variations follow
\* the same rule.
C18_WhiteCountByDensity ==
  BayerSwatchDone =>
    LET floor64 == (64 * density) \div DensityDen
        other   == create_bayer_dithered_texture(density, ~invert).pixels
    IN  /\ Len(pixels) = 64
        /\ \A k \in 1..64 :
             /\ pixels[k] \in {White, Black}
             /\ (pixels[k] = White) <=>
                  ((bayer_matrix[((k - 1) \div 8) + 1][((k - 1) % 8) + 1]
                      >= floor64) <=> ~invert)
             /\ (pixels[k] = White) <=> (other[k] = Black)
        /\ WhiteCount(pixels) = IF invert THEN floor64 ELSE 64 - floor64
        /\ (density = DensityDen /\ ~invert) => WhiteCount(pixels) = 0
        /\ \A d2 \in density..DensityDen :
             ~invert => WhiteCount(create_bayer_dithered_texture(d2, FALSE).pixels)
                          <= WhiteCount(pixels)

\* C18 witness: density 0.3 (floor(64*0.3) = 19) painted 45 white pixels
\* uninverted, and 19 inverted.
C18_Witness ==
  /\ BayerSwatchDone /\ script = "assets"
  /\ density * 10 = 3 * DensityDen
  /\ WhiteCount(pixels) = IF invert THEN 19 ELSE 45

\* create_mac_dithered_pattern has handed its 64 pixels to putdata
MacPatternDone == script = "mac" /\ pc = "mac_created"

\* C14: in create_mac_dithered_pattern, for every lightness and every cell
\* (x,y) of the 8x8 canvas, the pixel is white iff lightness > table[x + 8*y]
\* when invert is false, and iff not (lightness > table[x + 8*y]) when invert
\* is true; for the same lightness the inverted swatch is the exact per-pixel
\* complement of the non-inverted one, and every pixel is pure white or pure
\* black.
C14_MacPixelRule ==
  MacPatternDone =>
    LET other == create_mac_dithered_pattern(lightness, ~invert).pixels
    IN  /\ Len(pixels) = 64
        /\ \A x \in 0..7 : \A y \in 0..7 :
             LET px      == pixels[8 * y + x + 1]
                 lighter == RatGT(Rat(lightness, DensityDen),
                                  threshold_table[x + 8 * y + 1])
             IN  /\ px \in {White, Black}
                 /\ (px = White) <=> (IF invert THEN ~lighter ELSE lighter)
                 /\ (px = White) <=> (other[8 * y + x + 1] = Black)

\* C14 witness: at lightness 0.5 the inverted pattern has a black first pixel
\* (0.5 > table[0] = 0) and a white pixel at x = 7, y = 0 (table[7] = 63/64).
C14_Witness ==
  /\ MacPatternDone /\ invert
  /\ lightness * 2 = DensityDen
  /\ pixels[1] = Black
  /\ pixels[8] = White

\* C17: the table of create_classic_mac_threshold_table holds each value k/64
\* for k = 0..63 exactly once, with table[0] = 0, table[7] = 63/64,
\* table[56] = 42/64 and table[63] = 21/64; so create_mac_dithered_pattern
\* with lightness k/8 (k = 0..8, not inverted) paints exactly 8*k white
\* pixels: all black at 0.0, all white at 1.0.
C17_MacTablePermutation ==
  MacPatternDone =>
    /\ Len(threshold_table) = 64
    /\ \A k \in 0..63 :
         Cardinality({p \in 0..63 :
                        RatEQ(threshold_table[p + 1], Rat(k, 64))}) = 1
    /\ RatEQ(threshold_table[0 + 1], Rat(0, 64))
    /\ RatEQ(threshold_table[7 + 1], Rat(63, 64))
    /\ RatEQ(threshold_table[56 + 1], Rat(42, 64))
    /\ RatEQ(threshold_table[63 + 1], Rat(21, 64))
    /\ \A k \in 0..8 :
         (~invert /\ lightness * 8 = k * DensityDen)
           => WhiteCount(pixels) = 8 * k

\* C17 witness: lightness 0.375 painted 24 white pixels, from a table whose
\* entry 7 is 63/64.
C17_Witness ==
  /\ MacPatternDone /\ ~invert
  /\ lightness * 8 = 3 * DensityDen
  /\ WhiteCount(pixels) = 24
  /\ RatEQ(threshold_table[7 + 1], Rat(63, 64))

\* the identifiers the dithering function of a script has a branch for
OrderedNames(s) ==
  IF s = "v2" THEN {"threshold", "checkerboard", "bayer2", "bayer4", "bayer8"}
  ELSE {"bayer2", "bayer4", "bayer8", "simple", "diagonal"}

\* the dithering function was called with an identifier it has no branch for
UnknownPatternCalled ==
  script \in DitherScripts /\ pc = "called" /\ pattern \notin OrderedNames(script)

\* C12: a pattern identifier outside the dithering function's vocabulary
\* gives an error and no dithered image, for apply_ordered_dithering of v2
\* and for apply_ordered_dither of v3.
\* (Stated as the claim states it; v3 returns an image.)
C12_UnknownPatternRaises ==
  UnknownPatternCalled => (raised # "none" /\ dithered = NoImage)

\* C12, amended: for an identifier outside its five names
\* apply_ordered_dithering of v2 raises ValueError and returns no image;
\* apply_ordered_dither of v3 raises nothing for any identifier: outside its
\* five ordered names ('floyd' and unknown names alike) it returns the
\* Floyd-Steinberg conversion of the image, of the image's size, with no
\* threshold matrix built.
C12_UnknownPatternAmended ==
  UnknownPatternCalled =>
    /\ script = "v2" =>
         /\ raised = "ValueError"
         /\ dithered = NoImage
         /\ threshold_matrix = <<>> /\ tiled_matrix = <<>>
    /\ script = "v3" =>
         /\ raised = "none"
         /\ dithered.external
         /\ dithered.size = <<Rows(img), Cols(img)>>
         /\ threshold_matrix = <<>> /\ tiled_matrix = <<>>

\* C12 witness: apply_ordered_dither of v3 was called with the unknown name
\* "spiral" on a 2x2 image and returned a 2x2 error-diffused image.
C12_Witness ==
  /\ script = "v3" /\ pc = "called" /\ pattern = "spiral"
  /\ raised = "none"
  /\ dithered.external /\ dithered.size = <<2, 2>>

\* create_bayer_matrix returned or raised
BuilderDone == script \in BuilderScripts /\ pc = "built"

\* C13: for every size N that is not 2, 4 or 8, create_bayer_matrix(N) ends
\* with an error and returns no matrix, in v2, in v3 and in the recursive
\* builder of the two texture scripts.
\* (Stated as the claim states it, with any exception counted as the error;
\* the recursive builder returns matrices for sizes such as 5 and 16.)
C13_InvalidSizeRaises ==
  (BuilderDone /\ bayer_size \notin {2, 4, 8}) =>
    (built.raised # "none" /\ built.value = <<>>)

\* create_bayer_matrix returned a matrix for one of the three Bayer sizes
BayerBuilt == BuilderDone /\ bayer_size \in {2, 4, 8} /\ built.raised = "none"

\* the unnormalised integer level of cell (i,j) of the matrix a script built:
\* N^2 times the threshold for v2 and v3, the cell itself for the texture
\* scripts
LevelAt(s, m, N, i, j) ==
  IF s \in TextureScripts THEN m[i][j] ELSE Level(m[i][j], N)

\* the pairs of horizontally or vertically neighbouring cells of the built
\* matrix whose levels differ by exactly 1 (left or upper cell first)
AdjacentLevelPairs ==
  LET N == Len(built.value)
      L(i, j) == LevelAt(script, built.value, N, i, j)
      Near(a, b) == a - b = 1 \/ b - a = 1
  IN  {c \in ((1..N) \X (1..N)) \X ((1..N) \X (1..N)) :
         /\ \/ (c[2][1] = c[1][1] /\ c[2][2] = c[1][2] + 1)
            \/ (c[2][2] = c[1][2] /\ c[2][1] = c[1][1] + 1)
         /\ Near(L(c[1][1], c[1][2]), L(c[2][1], c[2][2]))}

\* C16: in every Bayer matrix the builders produce for N in {2,4,8}, no two
\* horizontally or vertically neighbouring cells hold unnormalised integer
\* levels that differ by exactly 1.
\* (Stated as the claim states it; false of the 2x2 matrix.)
C16_NoAdjacentLevels ==
  BayerBuilt => AdjacentLevelPairs = {}

\* C16, amended: for N in {4,8} no two neighbouring cells of a built matrix
\* hold levels that differ by exactly 1; in the 2x2 matrix [[0,2],[3,1]] of
\* every builder exactly one pair of neighbours does: 2 (row 0, column 1) and
\* 1 (row 1, column 1), one above the other.
C16_NoAdjacentLevelsAmended ==
  BayerBuilt =>
    /\ bayer_size \in {4, 8} => AdjacentLevelPairs = {}
    /\ bayer_size = 2 =>
         /\ AdjacentLevelPairs = { << <<1, 2>>, <<2, 2>> >> }
         /\ LevelAt(script, built.value, 2, 1, 2) = 2
         /\ LevelAt(script, built.value, 2, 2, 2) = 1

\* C16 witness: the texture scripts' 8x8 matrix was built and none of its
\* neighbouring cells hold levels one apart (its first row starts 0, 32).
C16_Witness ==
  /\ BayerBuilt /\ script = "assets" /\ bayer_size = 8
  /\ built.value[1][1] = 0 /\ built.value[1][2] = 32
  /\ AdjacentLevelPairs = {}

\* cell for cell equality of two matrices of fractions
RatMatEq(a, b) ==
  /\ Len(a) = Len(b)
  /\ \A i \in 1..Len(a) :
       /\ Len(a[i]) = Len(b[i])
       /\ \A j \in 1..Len(a[i]) : RatEQ(a[i][j], b[i][j])

\* the built matrix as thresholds: the texture scripts' integers over N^2
BuiltNormalised ==
  IF script \in TextureScripts
  THEN MatDiv(AsFloat(built.value), bayer_size * bayer_size)
  ELSE built.value

\* C19: for N = 2 and N = 4 the builders agree cell for cell:
\* create_bayer_matrix(N) of v2 equals that of v3, and both equal the texture
\* scripts' unnormalised recursive matrix divided by N^2; for N = 8 the
\* matrices of v2 and v3 differ.
C19_BuildersAgreeBelowEight ==
  BayerBuilt =>
    /\ bayer_size \in {2, 4} =>
         /\ RatMatEq(BuiltNormalised, create_bayer_matrix_v2(bayer_size).value)
         /\ RatMatEq(BuiltNormalised, create_bayer_matrix_v3(bayer_size).value)
         /\ RatMatEq(BuiltNormalised,
                     MatDiv(AsFloat(create_bayer_matrix_tex(bayer_size).value),
                            bayer_size * bayer_size))
    /\ (bayer_size = 8 /\ script = "v2") =>
         ~RatMatEq(built.value, create_bayer_matrix_v3(8).value)
    /\ (bayer_size = 8 /\ script = "v3") =>
         ~RatMatEq(built.value, create_bayer_matrix_v2(8).value)

\* C19 witness: v3 built its 4x4 matrix by strided assignment, and it is the
\* literal 4x4 matrix of v2 (second row 12, 4, 14, 6 over 16).
C19_Witness ==
  /\ BayerBuilt /\ script = "v3" /\ bayer_size = 4
  /\ RatMatEq(built.value, create_bayer_matrix_v2(4).value)
  /\ RatEQ(built.value[2][1], Rat(12, 16))
  /\ RatEQ(built.value[2][3], Rat(14, 16))
====
